---- MODULE Spec2Model ----
(***************************************************************************)
(* tryCatch (src/src/index.ts): an async function that awaits its input    *)
(* promise inside try/catch and returns { data, error: null } when the     *)
(* input fulfils and { data: null, error } when it rejects.                *)
(*                                                                         *)
(* The model follows the host's promise machinery as far as the function   *)
(* uses it: a promise is pending, fulfilled or rejected and settles once;  *)
(* `await p` registers the call's continuation as a reaction of p (or, if  *)
(* p is already settled, queues it as a microtask at once); settling p     *)
(* queues its reactions; microtasks run first-in first-out, one at a       *)
(* time.  An async function's `return r` fulfils the promise the call      *)
(* returned with r (r is a plain object without a `then` property).        *)
(***************************************************************************)
EXTENDS Naturals, Sequences, FiniteSets

\* how many tryCatch calls are made, numbered in the order they are invoked
NumCalls == 2

\* each call can be handed an input promise of its own
NumInputs == NumCalls

Calls == 1..NumCalls

\* promises created by the caller (fetchUser(id), fetchPosts(id), ...)
Inputs == 1..NumInputs

\* the promise the async function tryCatch returns for call c
RetPromise(c) == NumInputs + c

Promises == 1..(NumInputs + NumCalls)

\* ---------------------------------------------------------------- values
\* A JavaScript value: a primitive (identified by its kind and content) or an
\* object (identified by its reference).  Two values are === exactly when the
\* records are equal.
Val(k, i) == [kind |-> k, id |-> i]

Undefined == Val("undefined", 0)

Null == Val("null", 0)

\* the plain string "oops"
Oops == Val("string", 1)

\* the object { id: 1 }
User == Val("object", 1)

\* new Error("boom")
Boom == Val("error", 1)

\* the object literal built by call c's return statement
ResultRef(c) == Val("result", c)

\* what the wrapped computation can produce
ResolveValues == {Undefined, Null, User}

\* what the wrapped computation can fail with: an Error or anything else
RejectValues == {Undefined, Null, Oops, Boom}

\* ToBoolean, as applied by `if (result.error)`: undefined, null and the
\* empty string are falsy, every object and non-empty string is truthy
Truthy(v) ==
    /\ v.kind \notin {"undefined", "null"}
    /\ ~(v.kind = "string" /\ v.id = 0)

\* ---------------------------------------------------------------- state
VARIABLES
    pstate,      \* pstate[p]: [state, value] of promise p
    reactions,   \* reactions[p]: calls suspended on pending promise p, in order
    microtasks,  \* the microtask queue: calls whose continuation is ready
    pc,          \* pc[c]: "idle" | "awaiting" | "done"
    arg,         \* arg[c]: the promise passed to call c (0 before the call)
    results,     \* results[c]: the result objects call c has constructed
    exit         \* exit[c]: "none" | "success" | "failure", the return taken

vars == <<pstate, reactions, microtasks, pc, arg, results, exit>>

Absent == [state |-> "absent", value |-> Undefined]

Pending == [state |-> "pending", value |-> Undefined]

Settled(p) == pstate[p].state \in {"fulfilled", "rejected"}

Init ==
    /\ pstate = [p \in Promises |-> IF p \in Inputs THEN Pending ELSE Absent]
    /\ reactions = [p \in Promises |-> <<>>]
    /\ microtasks = <<>>
    /\ pc = [c \in Calls |-> "idle"]
    /\ arg = [c \in Calls |-> 0]
    /\ results = [c \in Calls |-> <<>>]
    /\ exit = [c \in Calls |-> "none"]

\* ------------------------------------------------------ the environment
\* the wrapped computation produces v
Resolve(p, v) ==
    /\ pstate[p].state = "pending"
    /\ pstate' = [pstate EXCEPT ![p] = [state |-> "fulfilled", value |-> v]]
    /\ microtasks' = microtasks \o reactions[p]
    /\ reactions' = [reactions EXCEPT ![p] = <<>>]
    /\ UNCHANGED <<pc, arg, results, exit>>

\* the wrapped computation fails with e
Reject(p, e) ==
    /\ pstate[p].state = "pending"
    /\ pstate' = [pstate EXCEPT ![p] = [state |-> "rejected", value |-> e]]
    /\ microtasks' = microtasks \o reactions[p]
    /\ reactions' = [reactions EXCEPT ![p] = <<>>]
    /\ UNCHANGED <<pc, arg, results, exit>>

\* ------------------------------------------------------------- tryCatch
\* variant: the promise is not awaited, the continuation is queued at once
Call_noAwait(c, p) ==
    /\ pc[c] = "idle"
    /\ \A d \in Calls : d < c => pc[d] # "idle"
    /\ pstate[p].state # "absent"
    /\ pc' = [pc EXCEPT ![c] = "awaiting"]
    /\ arg' = [arg EXCEPT ![c] = p]
    /\ pstate' = [pstate EXCEPT ![RetPromise(c)] = Pending]
    /\ microtasks' = Append(microtasks, c)
    /\ UNCHANGED <<reactions, results, exit>>

\* tryCatch(promise) up to its suspension at `await promise`
Call(c, p) ==
    /\ pc[c] = "idle"
    /\ \A d \in Calls : d < c => pc[d] # "idle"
    /\ pstate[p].state # "absent"
    /\ pc' = [pc EXCEPT ![c] = "awaiting"]
    /\ arg' = [arg EXCEPT ![c] = p]
    /\ pstate' = [pstate EXCEPT ![RetPromise(c)] = Pending]
    /\ IF Settled(p)
         THEN /\ microtasks' = Append(microtasks, c)
              /\ UNCHANGED reactions
         ELSE /\ reactions' = [reactions EXCEPT ![p] = Append(@, c)]
              /\ UNCHANGED microtasks
    /\ UNCHANGED <<results, exit>>

\* variant: `data ?? null`, an undefined value is normalised to null
SuccessResult_coalesce(data) ==
    [data |-> IF data = Undefined THEN Null ELSE data, error |-> Null]

\* variant: `return { data }`, the error field is left undefined
SuccessResult_noError(data) == [data |-> data, error |-> Undefined]

\* { data, error: null }
SuccessResult(data) == [data |-> data, error |-> Null]

\* variant: a rejection value that is no Error is wrapped in a new Error
FailureResult_coerce(error) ==
    [data |-> Null,
     error |-> IF error.kind = "error" THEN error ELSE Val("error", 2)]

\* { data: null, error: error as E }
FailureResult(error) == [data |-> Null, error |-> error]

\* variant: the awaited promise is kept in a variable shared by all calls,
\* so a continuation reads the promise of the call invoked last
Settlement_shared(c) ==
    LET last == CHOOSE l \in Calls :
                    /\ pc[l] # "idle"
                    /\ \A d \in Calls : d > l => pc[d] = "idle"
    IN  pstate[arg[last]]

\* the settlement the continuation of call c is resumed with
Settlement(c) == pstate[arg[c]]

\* the return statement the resumed call reaches
Branch(c) == IF Settlement(c).state = "fulfilled" THEN "success" ELSE "failure"

\* variant: a value that is itself a result object is flattened
Outcome_flatten(c) ==
    IF Settlement(c).value.kind = "result"
      THEN Head(results[Settlement(c).value.id])
      ELSE IF Branch(c) = "success"
             THEN SuccessResult(Settlement(c).value)
             ELSE FailureResult(Settlement(c).value)

\* the object that return statement builds
Outcome(c) ==
    IF Branch(c) = "success"
      THEN SuccessResult(Settlement(c).value)
      ELSE FailureResult(Settlement(c).value)

\* variant: the catch block re-throws
Completion_rethrow(c) ==
    IF Settlement(c).state = "rejected"
      THEN [state |-> "rejected", value |-> Settlement(c).value]
      ELSE [state |-> "fulfilled", value |-> ResultRef(c)]

\* how the async function settles the promise it returned
Completion(c) == [state |-> "fulfilled", value |-> ResultRef(c)]

\* variant: one result object, allocated once, is reused by every call
NewResult_reused(c, r) ==
    [d \in Calls |-> IF d = c \/ results[d] # <<>> THEN <<r>> ELSE results[d]]

\* the object literal of a return statement is a fresh object of call c
NewResult(c, r) == [results EXCEPT ![c] = Append(@, r)]

\* variant: the catch block awaits the promise again instead of returning
Resume_retry(c) ==
    /\ microtasks # <<>>
    /\ Head(microtasks) = c
    /\ pc[c] = "awaiting"
    /\ IF Branch(c) = "failure"
         THEN /\ microtasks' = Append(Tail(microtasks), c)
              /\ UNCHANGED <<pstate, reactions, pc, arg, results, exit>>
         ELSE /\ results' = NewResult(c, Outcome(c))
              /\ exit' = [exit EXCEPT ![c] = Branch(c)]
              /\ pc' = [pc EXCEPT ![c] = "done"]
              /\ pstate' = [pstate EXCEPT ![RetPromise(c)] = Completion(c)]
              /\ microtasks' = Tail(microtasks) \o reactions[RetPromise(c)]
              /\ reactions' = [reactions EXCEPT ![RetPromise(c)] = <<>>]
              /\ UNCHANGED arg

\* the continuation of call c runs: the await completes, one of the two
\* return statements runs, and the returned promise is settled
Resume(c) ==
    /\ microtasks # <<>>
    /\ Head(microtasks) = c
    /\ pc[c] = "awaiting"
    /\ results' = NewResult(c, Outcome(c))
    /\ exit' = [exit EXCEPT ![c] = Branch(c)]
    /\ pc' = [pc EXCEPT ![c] = "done"]
    /\ pstate' = [pstate EXCEPT ![RetPromise(c)] = Completion(c)]
    /\ microtasks' = Tail(microtasks) \o reactions[RetPromise(c)]
    /\ reactions' = [reactions EXCEPT ![RetPromise(c)] = <<>>]
    /\ UNCHANGED arg

RunMicrotask == \E c \in Calls : Resume(c)

Next ==
    \/ \E p \in Inputs, v \in ResolveValues : Resolve(p, v)
    \/ \E p \in Inputs, e \in RejectValues : Reject(p, e)
    \/ \E c \in Calls, p \in Promises : Call(c, p)
    \/ RunMicrotask

Spec == Init /\ [][Next]_vars

\* the host runs every queued microtask
FairSpec == Spec /\ WF_vars(RunMicrotask)

\* ------------------------------------------------------------ properties
Done(c) == pc[c] = "done"

\* the single result object of a call that has returned
Result(c) == Head(results[c])

\* the state and value the input of call c settled with
InState(c) == pstate[arg[c]].state

InValue(c) == pstate[arg[c]].value

\* C1: the promise returned by tryCatch never rejects, whatever the input
\* settles with: once the call has run to its end the returned promise is
\* fulfilled with the call's result object, a rejection of the input included.
C1_NeverRejects ==
    \A c \in Calls :
        /\ pstate[RetPromise(c)].state # "rejected"
        /\ Done(c) =>
             pstate[RetPromise(c)] = [state |-> "fulfilled", value |-> ResultRef(c)]

\* a call whose input rejected with null has returned, its promise fulfilled
C1_Witness ==
    \E c \in Calls :
        /\ Done(c)
        /\ InState(c) = "rejected"
        /\ InValue(c) = Null
        /\ pstate[RetPromise(c)].state = "fulfilled"

\* C2: if the input resolves with v, undefined and null included, the result
\* has data identical to v and error null.
C2_SuccessCarriesValue ==
    \A c \in Calls :
        (Done(c) /\ InState(c) = "fulfilled") =>
            results[c] = <<[data |-> InValue(c), error |-> Null]>>

\* a call whose input resolved with undefined has returned data undefined
C2_Witness ==
    \E c \in Calls :
        /\ Done(c)
        /\ InState(c) = "fulfilled"
        /\ InValue(c) = Undefined
        /\ Result(c).data = Undefined

\* C3: if the input rejects with e, whether an Error, a string or null, the
\* result has error identical to e and data null.
C3_FailureCarriesError ==
    \A c \in Calls :
        (Done(c) /\ InState(c) = "rejected") =>
            results[c] = <<[data |-> Null, error |-> InValue(c)]>>

\* a call whose input rejected with the plain string "oops" has returned it
C3_Witness ==
    \E c \in Calls :
        /\ Done(c)
        /\ InState(c) = "rejected"
        /\ InValue(c) = Oops
        /\ Result(c).error = Oops

\* C4 as stated: every result has exactly one of data and error populated,
\* never both populated and never both null.
C4_ExactlyOnePopulated ==
    \A c \in Calls :
        Done(c) => ((Result(c).data = Null) # (Result(c).error = Null))

\* C4 amended: every result has at least one of data and error equal to null
\* (never both populated), and both are null exactly when the input settled
\* with null, by resolving with null or by rejecting with null.
C4_AtMostOnePopulated ==
    \A c \in Calls :
        Done(c) =>
            /\ Result(c).data = Null \/ Result(c).error = Null
            /\ (Result(c).data = Null /\ Result(c).error = Null)
                   <=> (InValue(c) = Null)

\* a call whose input resolved with null has returned { data: null, error: null }
C4_Witness ==
    \E c \in Calls :
        /\ Done(c)
        /\ InState(c) = "fulfilled"
        /\ InValue(c) = Null
        /\ Result(c) = [data |-> Null, error |-> Null]

\* C5: whenever `if (result.error)` is not taken, the input resolved and
\* result.data is the value it resolved with.
C5_FalsyErrorMeansResolved ==
    \A c \in Calls :
        (Done(c) /\ ~Truthy(Result(c).error)) =>
            /\ InState(c) = "fulfilled"
            /\ Result(c).data = InValue(c)

\* C6: of two calls on different promises, in flight together, each returns
\* the result its own input's settlement determines, under every order of the
\* settlements and of the continuations.
C6_Independent ==
    \A c, d \in Calls :
        (c # d /\ pc[d] # "idle" /\ arg[c] # arg[d] /\ Done(c)) =>
            results[c] =
                <<IF InState(c) = "fulfilled"
                    THEN [data |-> InValue(c), error |-> Null]
                    ELSE [data |-> Null, error |-> InValue(c)]>>

\* the call made second has returned the failure of its input while the call
\* made first is still in flight, its input resolved with another value
C6_Witness ==
    \E c, d \in Calls :
        /\ c < d
        /\ arg[c] \in Inputs /\ arg[d] \in Inputs /\ arg[c] # arg[d]
        /\ pc[c] = "awaiting" /\ InState(c) = "fulfilled" /\ InValue(c) = User
        /\ Done(d) /\ Result(d) = [data |-> Null, error |-> Boom]

\* a call has something to show: a result, a return taken, a settled promise
Produced(c) ==
    \/ results[c] # <<>>
    \/ exit[c] # "none"
    \/ pc[c] = "done"
    \/ (pc[c] # "idle" /\ pstate[RetPromise(c)].state # "pending")

\* C7: a call has a result only after its input has settled (so a call on an
\* input that never settles never has one), and no step of tryCatch settles
\* or changes a promise made by the caller.
C7_ResultOnlyAfterSettle ==
    /\ [](\A c \in Calls : Produced(c) => Settled(arg[c]))
    /\ [][pc' # pc => \A p \in Inputs : pstate'[p] = pstate[p]]_vars

\* a call is suspended on a pending input while another has already returned
C7_Witness ==
    \E c, d \in Calls :
        /\ pc[c] = "awaiting"
        /\ pstate[arg[c]].state = "pending"
        /\ ~Produced(c)
        /\ Done(d)

\* C8: when microtasks are run, a call whose input has settled returns; a
\* call that has returned took one of the two return statements and built
\* one result; and a call that has returned stays returned, with the result
\* and the branch it has.
C8_ReturnsOnce ==
    /\ \A c \in Calls : (pc[c] = "awaiting" /\ Settled(arg[c])) ~> Done(c)
    /\ [](\A c \in Calls :
            /\ Len(results[c]) <= 1
            /\ Done(c) <=> Len(results[c]) = 1
            /\ Done(c) <=> exit[c] \in {"success", "failure"}
            /\ exit[c] = "success" => InState(c) = "fulfilled"
            /\ exit[c] = "failure" => InState(c) = "rejected")
    /\ [][\A c \in Calls :
            Done(c) => /\ pc'[c] = "done"
                       /\ exit'[c] = exit[c]
                       /\ Len(results'[c]) = 1]_vars

\* a call made on an already rejected input is queued, another has returned
\* through the failure branch with its one result
C8_Witness ==
    \E c, d \in Calls :
        /\ pc[c] = "awaiting" /\ InState(c) = "rejected"
        /\ Done(d) /\ exit[d] = "failure" /\ Len(results[d]) = 1

\* C9: once a call has constructed its result, no step of any call changes
\* the result's data or error.
C9_ResultImmutable ==
    [][\A c \in Calls : results[c] # <<>> => results'[c] = results[c]]_vars

\* two calls have returned different results, one after the other
C9_Witness ==
    \E c, d \in Calls :
        /\ c # d
        /\ Done(c) /\ Done(d)
        /\ Result(c) # Result(d)

\* C10: for tryCatch(tryCatch(p)) the outer call takes the success branch and
\* returns error null and, as data, the very object the inner call returned,
\* whether p resolved or rejected.
C10_NestedAlwaysSucceeds ==
    \A c, d \in Calls :
        (arg[c] = RetPromise(d) /\ Done(c)) =>
            /\ Done(d)
            /\ exit[c] = "success"
            /\ results[c] = <<[data |-> ResultRef(d), error |-> Null]>>
            /\ results[d] # <<>>

\* the outer call has returned around an inner call whose input rejected
C10_Witness ==
    \E c, d \in Calls :
        /\ arg[c] = RetPromise(d)
        /\ Done(c)
        /\ exit[d] = "failure"
        /\ Result(d).error = Boom
        /\ Result(c).data = ResultRef(d)

====
